---- MODULE Spec2Model ----
(***************************************************************************)
(* Model of js/script.js: the page's event handlers (mobile navigation,    *)
(* form validation and simulated submission, project filter, FAQ          *)
(* accordion, scroll reveal) as actions over the DOM state they read and   *)
(* write.  Handlers run to completion; timers are tasks that fire when     *)
(* their delay has elapsed.                                                *)
(***************************************************************************)
EXTENDS Integers, Sequences, FiniteSets

VARIABLES
    hamburgerActive,   \* .hamburger carries 'active'
    navMenuActive,     \* .nav-menu carries 'active'
    hamburgerClicks,   \* hamburger clicks since the last nav-link click (or load)
    questionActive,    \* per .faq-question: carries 'active'
    answerActive,      \* per answer (nextElementSibling): carries 'active'
    answerMaxHeight,   \* per answer: style.maxHeight in px, Null when unset
    innerWidth,        \* window.innerWidth read by initScrollAnimations at load
    scrollListener,    \* handleScrollAnimations registered as a scroll listener
    scrollY,           \* current scroll position of the window
    opacity,           \* per animated element: inline style.opacity
    transform,         \* per animated element: inline style.transform
    scrollTimeout,     \* ms left on the debounce timer, NoTimer when none pending
    scrollEvents,      \* number of scroll events dispatched so far
    revealCalls,       \* number of invocations of handleScrollAnimations so far
    formMessageExists, \* document.getElementById('formMessage') is not null
    errorElement,      \* per field: its wrapper holds an .error-message element
    value,             \* per field: field.value, a sequence of characters
    errorText,         \* per field: textContent of its .error-message element
    formMessage,       \* the message region: textContent, className, inline info style
    submitTimers,      \* number of pending 1500 ms submission timers
    uncaughtError,     \* a handler or timer callback has thrown
    lastEvent,         \* the form event or timer callback that ran last
    buttonActive,      \* per .filter-btn: carries 'active'
    filterValue,       \* data-filter of the button clicked last, "all" at load
    itemDisplay,       \* per .project-item: inline style.display
    itemOpacity,       \* per .project-item: inline style.opacity
    itemTransform,     \* per .project-item: inline style.transform
    filterTimers,      \* pending filter timers in creation order, with the ms left
    filterClicks,      \* number of filter-button clicks so far
    field,             \* a field handed to validateField: required, type, value,
                       \* whether it has an error element, and that element's text
    returned,          \* what the last validateField(field) call returned, "none" before
    calls              \* validateField(field) calls made on the field as it is

navVars == <<hamburgerActive, navMenuActive, hamburgerClicks>>
faqVars == <<questionActive, answerActive, answerMaxHeight>>
scrollVars == <<innerWidth, scrollListener, scrollY, opacity, transform,
                scrollTimeout, scrollEvents, revealCalls>>
formVars == <<formMessageExists, errorElement, value, errorText, formMessage,
              submitTimers, uncaughtError, lastEvent>>
filterVars == <<buttonActive, filterValue, itemDisplay, itemOpacity, itemTransform,
                filterTimers, filterClicks>>
validatorVars == <<field, returned, calls>>
vars == <<navVars, faqVars, scrollVars, formVars, filterVars, validatorVars>>

\* ------------------------------------------------------------------ bounds
NumLinks == 2
NumQuestions == 3
NumElements == 3
MaxScrollSteps == 3
MaxScrollEvents == 3
MaxPendingSubmits == 2
NumItems == 2
MaxFilterClicks == 4
MaxHamburgerClicks == 3
MaxEmailLen == 5
MaxPhoneLen == 17
MaxCalls == 2

\* ------------------------------------------------------- mobile navigation
NavLinks == 1..NumLinks

NavInit ==
    /\ hamburgerActive = FALSE
    /\ navMenuActive = FALSE
    /\ hamburgerClicks = 0

\* mutant: the click adds 'active' instead of toggling it
HamburgerClick_AddOnly ==
    /\ hamburgerClicks < MaxHamburgerClicks
    /\ hamburgerClicks' = hamburgerClicks + 1
    /\ hamburgerActive' = TRUE
    /\ navMenuActive' = TRUE
    /\ UNCHANGED <<faqVars, scrollVars, formVars, filterVars, validatorVars>>

\* hamburger click listener
HamburgerClick ==
    /\ hamburgerClicks < MaxHamburgerClicks
    /\ hamburgerClicks' = hamburgerClicks + 1
    /\ hamburgerActive' = ~hamburgerActive
    /\ navMenuActive' = ~navMenuActive
    /\ UNCHANGED <<faqVars, scrollVars, formVars, filterVars, validatorVars>>

\* mutant: the link click closes the menu but leaves the hamburger as it is
NavLinkClick_MenuOnly(link) ==
    /\ hamburgerClicks' = 0
    /\ navMenuActive' = FALSE
    /\ UNCHANGED <<hamburgerActive, faqVars, scrollVars, formVars, filterVars, validatorVars>>

\* nav-link click listener
NavLinkClick(link) ==
    /\ hamburgerClicks' = 0
    /\ hamburgerActive' = FALSE
    /\ navMenuActive' = FALSE
    /\ UNCHANGED <<faqVars, scrollVars, formVars, filterVars, validatorVars>>

\* ----------------------------------------------------------- FAQ accordion
Questions == 1..NumQuestions
Null == -1

\* answer.scrollHeight: the natural height of the answer's content, in px
ScrollHeight(q) == 40 * q

FaqInit ==
    /\ questionActive = [q \in Questions |-> FALSE]
    /\ answerActive = [q \in Questions |-> FALSE]
    /\ answerMaxHeight = [q \in Questions |-> Null]

\* mutant: the clicked question's class is not toggled
ToggledQuestions_NoToggle(this) == questionActive

\* 'active' class of each question once the clicked one has been toggled
ToggledQuestions(this) ==
    [q \in Questions |-> IF q = this THEN ~questionActive[q] ELSE questionActive[q]]

\* mutant: the closing loop is missing
OthersToClose_None(this) == {}

\* the other questions the closing loop finds active
OthersToClose(this) ==
    {q \in Questions : q # this /\ ToggledQuestions(this)[q]}

\* mutant: the closing loop does not reset the other answers' maxHeight
FaqClick_KeepHeight(this) ==
    /\ questionActive' =
         [q \in Questions |->
            IF q \in OthersToClose(this) THEN FALSE ELSE ToggledQuestions(this)[q]]
    /\ answerActive' =
         [q \in Questions |->
            IF q = this THEN ~answerActive[q]
            ELSE IF q \in OthersToClose(this) THEN FALSE
            ELSE answerActive[q]]
    /\ answerMaxHeight' =
         [q \in Questions |->
            IF q = this
              THEN (IF answerActive[q] THEN Null ELSE ScrollHeight(q))
            ELSE answerMaxHeight[q]]
    /\ UNCHANGED <<navVars, scrollVars, formVars, filterVars, validatorVars>>

\* .faq-question click listener
FaqClick(this) ==
    /\ questionActive' =
         [q \in Questions |->
            IF q \in OthersToClose(this) THEN FALSE ELSE ToggledQuestions(this)[q]]
    /\ answerActive' =
         [q \in Questions |->
            IF q = this THEN ~answerActive[q]
            ELSE IF q \in OthersToClose(this) THEN FALSE
            ELSE answerActive[q]]
    /\ answerMaxHeight' =
         [q \in Questions |->
            IF q = this
              THEN (IF answerActive[q] THEN Null ELSE ScrollHeight(q))
            ELSE IF q \in OthersToClose(this) THEN Null
            ELSE answerMaxHeight[q]]
    /\ UNCHANGED <<navVars, scrollVars, formVars, filterVars, validatorVars>>

\* ----------------------------------------------------------- scroll reveal
Elements == 1..NumElements
MobileMaxWidth == 768
DebounceDelay == 100
InnerHeight == 600
ScrollStep == 250
NoTimer == -1
Widths == {MobileMaxWidth, MobileMaxWidth + 1}
ScrollPositions == {ScrollStep * k : k \in 0..MaxScrollSteps}

\* distance of the element's top edge from the top of the document, in px
OffsetTop(e) == 500 * (e - 1)

\* element.getBoundingClientRect().top at scroll position y
BoundingTop(e, y) == OffsetTop(e) - y

\* elementPosition < window.innerHeight / 1.2
AboveThreshold(e, y) == 12 * BoundingTop(e, y) < 10 * InnerHeight

\* mutant: an element below the threshold is hidden again
RevealedOpacity_Rehide(op, y) ==
    [e \in Elements |-> IF AboveThreshold(e, y) THEN "1" ELSE "0"]

\* handleScrollAnimations: the inline styles it leaves, given the ones it finds
RevealedOpacity(op, y) ==
    [e \in Elements |-> IF AboveThreshold(e, y) THEN "1" ELSE op[e]]

RevealedTransform(tr, y) ==
    [e \in Elements |-> IF AboveThreshold(e, y) THEN "translateY(0)" ELSE tr[e]]

Unstyled == [e \in Elements |-> ""]

\* initScrollAnimations at DOMContentLoaded, and the script-level debounce listener
ScrollInit ==
    /\ innerWidth \in Widths
    /\ scrollListener = (innerWidth > MobileMaxWidth)
    /\ scrollY = 0
    /\ opacity = IF innerWidth > MobileMaxWidth
                   THEN RevealedOpacity(Unstyled, 0) ELSE Unstyled
    /\ transform = IF innerWidth > MobileMaxWidth
                     THEN RevealedTransform(Unstyled, 0) ELSE Unstyled
    /\ scrollTimeout = NoTimer
    /\ scrollEvents = 0
    /\ revealCalls = IF innerWidth > MobileMaxWidth THEN 1 ELSE 0

\* a scroll event: the debounce listener (registered first) re-arms the timer,
\* then handleScrollAnimations runs if initScrollAnimations registered it
ScrollEvent(y) ==
    /\ scrollEvents < MaxScrollEvents
    /\ scrollEvents' = scrollEvents + 1
    /\ scrollY' = y
    /\ scrollTimeout' = DebounceDelay
    /\ IF scrollListener
         THEN /\ opacity' = RevealedOpacity(opacity, y)
              /\ transform' = RevealedTransform(transform, y)
              /\ revealCalls' = revealCalls + 1
         ELSE UNCHANGED <<opacity, transform, revealCalls>>
    /\ UNCHANGED <<innerWidth, scrollListener, navVars, faqVars, formVars, filterVars, validatorVars>>

\* the debounce timer is due: setTimeout(handleScrollAnimations, 100)
ScrollTimeoutFire ==
    /\ scrollTimeout = 0
    /\ scrollTimeout' = NoTimer
    /\ opacity' = RevealedOpacity(opacity, scrollY)
    /\ transform' = RevealedTransform(transform, scrollY)
    /\ revealCalls' = revealCalls + 1
    /\ UNCHANGED <<innerWidth, scrollListener, scrollY, scrollEvents,
                   navVars, faqVars, formVars, filterVars, validatorVars>>

ScrollAdvanceSteps == {50}

\* time passes while the debounce timer is pending
ScrollAdvance(d) ==
    /\ scrollTimeout > 0
    /\ d <= scrollTimeout
    /\ scrollTimeout' = scrollTimeout - d
    /\ UNCHANGED <<innerWidth, scrollListener, scrollY, opacity, transform,
                   scrollEvents, revealCalls, navVars, faqVars, formVars, filterVars, validatorVars>>


\* ------------------------------------------------- form validation, submit
WhiteSpace == {" ", "\t", "\n"}
Digits == {"0", "1", "2", "3", "4", "5", "6", "7", "8", "9"}

RECURSIVE TrimStart(_)
TrimStart(s) ==
    IF s # <<>> /\ Head(s) \in WhiteSpace THEN TrimStart(Tail(s)) ELSE s

RECURSIVE TrimEnd(_)
TrimEnd(s) ==
    IF s # <<>> /\ s[Len(s)] \in WhiteSpace
      THEN TrimEnd(SubSeq(s, 1, Len(s) - 1)) ELSE s

\* String.prototype.trim
Trim(s) == TrimEnd(TrimStart(s))

\* mutant: the value is compared without trimming
IsBlank_NoTrim(v) == v = <<>>

\* field.value.trim() === ''
IsBlank(v) == Trim(v) = <<>>

\* mutant: the part after the '.' may be empty
EmailRegexTest_EmptyTld(s) ==
    \E i \in 2..Len(s) : \E j \in (i + 2)..Len(s) :
       /\ s[i] = "@"
       /\ s[j] = "."
       /\ \A k \in (1..Len(s)) \ {i, j} : s[k] \notin WhiteSpace \cup {"@"}

\* /^[^\s@]+@[^\s@]+\.[^\s@]+$/.test(s)
EmailRegexTest(s) ==
    \E i \in 2..Len(s) : \E j \in (i + 2)..(Len(s) - 1) :
       /\ s[i] = "@"
       /\ s[j] = "."
       /\ \A k \in (1..Len(s)) \ {i, j} : s[k] \notin WhiteSpace \cup {"@"}

\* mutant: the upper length limit is exclusive
PhoneRegexTest_Below15(s) ==
    /\ Len(s) >= 10
    /\ Len(s) < 15
    /\ \A k \in 1..Len(s) : s[k] \in Digits \cup WhiteSpace \cup {"-", "+", "(", ")"}

\* /^[\d\s\-\+\(\)]{10,15}$/.test(s)
PhoneRegexTest(s) ==
    /\ Len(s) >= 10
    /\ Len(s) <= 15
    /\ \A k \in 1..Len(s) : s[k] \in Digits \cup WhiteSpace \cup {"-", "+", "(", ")"}

RequiredMessage == "This field is required"
EmailMessage == "Please enter a valid email address"
PhoneMessage == "Please enter a valid phone number"

\* the errorMessage validateField computes once past the skip; '' when isValid
ErrorMessageFor(required, type, v) ==
    IF required /\ IsBlank(v) THEN RequiredMessage
    ELSE IF type = "email" /\ ~IsBlank(v)
      THEN (IF EmailRegexTest(Trim(v)) THEN "" ELSE EmailMessage)
    ELSE IF type = "tel" /\ ~IsBlank(v)
      THEN (IF PhoneRegexTest(Trim(v)) THEN "" ELSE PhoneMessage)
    ELSE ""

\* mutant: a field that already shows an error is not validated again
ValidateField_SkipShown(required, type, v, hasErrorElement, text) ==
    IF (~required /\ IsBlank(v)) \/ text # ""
      THEN [valid |-> TRUE, text |-> text]
      ELSE [valid |-> ErrorMessageFor(required, type, v) = "",
            text |-> IF hasErrorElement
                       THEN ErrorMessageFor(required, type, v) ELSE text]

\* validateField: the value it returns and the text it leaves in the field's
\* error element (text stays as found when there is no element, or on the skip)
ValidateField(required, type, v, hasErrorElement, text) ==
    IF ~required /\ IsBlank(v)
      THEN [valid |-> TRUE, text |-> text]
      ELSE [valid |-> ErrorMessageFor(required, type, v) = "",
            text |-> IF hasErrorElement
                       THEN ErrorMessageFor(required, type, v) ELSE text]

\* the contact form's fields and their required / type attributes
Fields == {"name", "email", "phone"}
Required == [f \in Fields |-> f # "phone"]
Type == [f \in Fields |-> IF f = "email" THEN "email"
                          ELSE IF f = "phone" THEN "tel" ELSE "text"]

\* values a user leaves in a field
InputValues ==
    { <<>>,
      <<" ">>,
      <<"a", "b", "c">>,
      <<"a", "@", "b", ".", "c", "o">>,
      <<"+", "9", "1", " ", "9", "8", "7", "6", "5", " ", "4", "3", "2", "1", "0">> }

\* the value form.reset() restores: the value attribute, none in this form
DefaultValue(f) == <<>>

ErrorBanner == "Please correct the errors in the form."
SendingBanner == "Sending your message..."
SuccessBanner == "Thank you for your message! We will respond to your inquiry within 24 hours."

\* showFormMessage(element, message, type): the element as it leaves it
ShowFormMessage(exists, element, message, type) ==
    IF ~exists THEN element
    ELSE [textContent |-> message,
          className |-> IF type \in {"success", "error"}
                          THEN {"form-message", type} ELSE {"form-message"},
          infoStyle |-> element.infoStyle \/ type = "info"]

\* the error-element layouts of the page
ErrorElementLayouts ==
    { [f \in Fields |-> TRUE], [f \in Fields |-> f # "email"] }

FormInit ==
    /\ formMessageExists \in BOOLEAN
    /\ errorElement \in ErrorElementLayouts
    /\ value = [f \in Fields |-> DefaultValue(f)]
    /\ errorText = [f \in Fields |-> ""]
    /\ formMessage = [textContent |-> "", className |-> {"form-message"},
                      infoStyle |-> FALSE]
    /\ submitTimers = 0
    /\ uncaughtError = FALSE
    /\ lastEvent = "load"

\* validateField(field) on the field's current state, with value v
Validated(f, v) ==
    ValidateField(Required[f], Type[f], v, errorElement[f], errorText[f])

\* input listener: the user has changed the field's value to v
InputEvent(f, v) ==
    /\ v # value[f]
    /\ value' = [value EXCEPT ![f] = v]
    /\ errorText' = [errorText EXCEPT ![f] = Validated(f, v).text]
    /\ lastEvent' = "input"
    /\ UNCHANGED <<formMessageExists, errorElement, formMessage, submitTimers,
                   uncaughtError, navVars, faqVars, scrollVars, filterVars, validatorVars>>

\* blur listener
BlurEvent(f) ==
    /\ errorText' = [errorText EXCEPT ![f] = Validated(f, value[f]).text]
    /\ lastEvent' = "blur"
    /\ UNCHANGED <<formMessageExists, errorElement, value, formMessage, submitTimers,
                   uncaughtError, navVars, faqVars, scrollVars, filterVars, validatorVars>>

\* the fields form.querySelectorAll('[required]') returns
RequiredFields == {f \in Fields : Required[f]}

\* isValid after the forEach over the required fields
AllRequiredValid == \A f \in RequiredFields : Validated(f, value[f]).valid

\* mutant: the loop over the required fields stops at the first invalid one
\* (the name field comes first in the form)
TextAfterSubmit_StopAtFirst ==
    [f \in Fields |->
       IF f \in RequiredFields /\ (f = "name" \/ Validated("name", value["name"]).valid)
         THEN Validated(f, value[f]).text ELSE errorText[f]]

\* the error texts once requiredFields.forEach has validated every required field
TextAfterSubmit ==
    [f \in Fields |->
       IF f \in RequiredFields THEN Validated(f, value[f]).text ELSE errorText[f]]

\* handleFormSubmit, up to the setTimeout call
SubmitEvent ==
    /\ AllRequiredValid => submitTimers < MaxPendingSubmits
    /\ errorText' = TextAfterSubmit
    /\ IF ~AllRequiredValid
         THEN /\ formMessage' =
                   ShowFormMessage(formMessageExists, formMessage, ErrorBanner, "error")
              /\ UNCHANGED submitTimers
         ELSE /\ formMessage' =
                   ShowFormMessage(formMessageExists, formMessage, SendingBanner, "info")
              /\ submitTimers' = submitTimers + 1
    /\ lastEvent' = "submit"
    /\ UNCHANGED <<formMessageExists, errorElement, value, uncaughtError,
                   navVars, faqVars, scrollVars, filterVars, validatorVars>>

\* mutant: the callback does not reset the form
SubmitTimeoutFire_NoReset ==
    /\ submitTimers > 0
    /\ submitTimers' = submitTimers - 1
    /\ formMessage' =
         ShowFormMessage(formMessageExists, formMessage, SuccessBanner, "success")
    /\ uncaughtError' = (uncaughtError \/ ~formMessageExists)
    /\ lastEvent' = "timeout"
    /\ UNCHANGED <<formMessageExists, errorElement, value, errorText,
                   navVars, faqVars, scrollVars, filterVars, validatorVars>>

\* the callback of setTimeout(..., 1500): success message, form.reset(), then
\* formMessage.scrollIntoView(...), which throws a TypeError on a null formMessage
SubmitTimeoutFire ==
    /\ submitTimers > 0
    /\ submitTimers' = submitTimers - 1
    /\ formMessage' =
         ShowFormMessage(formMessageExists, formMessage, SuccessBanner, "success")
    /\ value' = [f \in Fields |-> DefaultValue(f)]
    /\ uncaughtError' = (uncaughtError \/ ~formMessageExists)
    /\ lastEvent' = "timeout"
    /\ UNCHANGED <<formMessageExists, errorElement, errorText,
                   navVars, faqVars, scrollVars, filterVars, validatorVars>>

\* ---------------------------------------------------------- project filter
Items == 1..NumItems
Tags == {"residential", "commercial"}
Filters == {"all"} \cup Tags
ShowDelay == 10
HideDelay == 300

\* item.getAttribute('data-category').split(' ')
Categories(i) ==
    IF i = 1 THEN {"residential"}
    ELSE IF i = 2 THEN {"residential", "commercial"}
    ELSE {"commercial"}

\* filterValue === 'all' || categories.includes(filterValue)
Matches(i, tag) == tag = "all" \/ tag \in Categories(i)

FilterInit ==
    /\ buttonActive = [b \in Filters |-> b = "all"]
    /\ filterValue = "all"
    /\ itemDisplay = [i \in Items |-> ""]
    /\ itemOpacity = [i \in Items |-> ""]
    /\ itemTransform = [i \in Items |-> ""]
    /\ filterTimers = <<>>
    /\ filterClicks = 0

\* the timers one click creates, one per item in document order
RECURSIVE NewTimers(_, _)
NewTimers(i, tag) ==
    IF i > NumItems THEN <<>>
    ELSE <<IF Matches(i, tag)
             THEN [kind |-> "show", item |-> i, left |-> ShowDelay]
             ELSE [kind |-> "hide", item |-> i, left |-> HideDelay]>>
         \o NewTimers(i + 1, tag)

\* mutant: 'active' is added to the clicked button without clearing the others
ActiveAfterClick_NoClear(this) == [b \in Filters |-> buttonActive[b] \/ b = this]

\* the buttons' 'active' class after the remove-all loop and the add
ActiveAfterClick(this) == [b \in Filters |-> b = this]

\* .filter-btn click listener
FilterClick(this) ==
    /\ filterClicks < MaxFilterClicks
    /\ filterClicks' = filterClicks + 1
    /\ buttonActive' = ActiveAfterClick(this)
    /\ filterValue' = this
    /\ itemDisplay' = [i \in Items |->
                         IF Matches(i, this) THEN "block" ELSE itemDisplay[i]]
    /\ itemOpacity' = [i \in Items |->
                         IF Matches(i, this) THEN itemOpacity[i] ELSE "0"]
    /\ itemTransform' = [i \in Items |->
                           IF Matches(i, this) THEN itemTransform[i] ELSE "scale(0.8)"]
    /\ filterTimers' = filterTimers \o NewTimers(1, this)
    /\ UNCHANGED <<navVars, faqVars, scrollVars, formVars, validatorVars>>

\* position of the due timer that was created first, 0 when none is due
RECURSIVE FirstDue(_)
FirstDue(k) ==
    IF k > Len(filterTimers) THEN 0
    ELSE IF filterTimers[k].left = 0 THEN k
    ELSE FirstDue(k + 1)

Without(seq, k) == SubSeq(seq, 1, k - 1) \o SubSeq(seq, k + 1, Len(seq))

\* a due timer's callback runs: the 10 ms one of a shown item, or the 300 ms
\* one of a hidden item
FilterTimerFire ==
    /\ FirstDue(1) # 0
    /\ LET t == filterTimers[FirstDue(1)] IN
         /\ IF t.kind = "show"
              THEN /\ itemOpacity' = [itemOpacity EXCEPT ![t.item] = "1"]
                   /\ itemTransform' = [itemTransform EXCEPT ![t.item] = "scale(1)"]
                   /\ UNCHANGED itemDisplay
              ELSE /\ itemDisplay' = [itemDisplay EXCEPT ![t.item] = "none"]
                   /\ UNCHANGED <<itemOpacity, itemTransform>>
         /\ filterTimers' = Without(filterTimers, FirstDue(1))
    /\ UNCHANGED <<buttonActive, filterValue, filterClicks,
                   navVars, faqVars, scrollVars, formVars, validatorVars>>

\* ms until the next pending filter timer is due
RECURSIVE MinLeft(_)
MinLeft(k) ==
    IF k = Len(filterTimers) THEN filterTimers[k].left
    ELSE IF filterTimers[k].left < MinLeft(k + 1) THEN filterTimers[k].left
    ELSE MinLeft(k + 1)

\* ms until the next filter timer is due, 0 when none is pending
NextDue == IF filterTimers = <<>> THEN 0 ELSE MinLeft(1)

\* time passes until the next pending filter timer is due (a click can come
\* at any such instant, before or after the timers due then have fired)
FilterAdvance(d) ==
    /\ filterTimers # <<>>
    /\ d > 0
    /\ d <= NextDue
    /\ filterTimers' = [k \in 1..Len(filterTimers) |->
                          [filterTimers[k] EXCEPT !.left = @ - d]]
    /\ UNCHANGED <<buttonActive, filterValue, itemDisplay, itemOpacity, itemTransform,
                   filterClicks, navVars, faqVars, scrollVars, formVars, validatorVars>>

\* ------------------------------------------------ validateField on one field
\* all sequences over the alphabet of length at most n
StringsUpTo(alphabet, n) == UNION {[1..k -> alphabet] : k \in 0..n}

EmailAlphabet == {"a", "@", ".", " "}

\* values of an email field: every short string, and some longer ones
EmailValues ==
    StringsUpTo(EmailAlphabet, MaxEmailLen)
      \cup { <<"a", "b", "c">>,
             <<"a", "@", "b", ".", "c", "o">>,
             <<" ", "a", "@", "a", ".", "a">>,
             <<"a", "@", "a", ".", "a", " ">>,
             <<" ", "a", "@", "a", ".", "a", " ">> }

PhoneEdgeChars == {"7", " ", "(", "a"}
PhoneInnerChars == {"7", "+", "-", "(", ")", " ", "\t", "a", "."}
DigitAt(i) == IF i % 2 = 0 THEN "0" ELSE "9"

\* values of a tel field: digits, with any first, second and last character
PhoneValues ==
    { [i \in 1..n |-> IF i = 1 THEN x
                      ELSE IF i = n THEN y
                      ELSE IF i = 2 THEN z
                      ELSE DigitAt(i)] :
        n \in 1..MaxPhoneLen, x \in PhoneEdgeChars, y \in PhoneEdgeChars,
        z \in PhoneInnerChars }
      \cup { <<>>,
             <<"1", "2", "3", "4", "5">>,
             <<"+", "9", "1", " ", "9", "8", "7", "6", "5", " ", "4", "3", "2", "1", "0">> }

TextValues == StringsUpTo({"a", " "}, 2)

FieldTypes == {"email", "tel", "text"}

ValuesOf(type) ==
    IF type = "email" THEN EmailValues
    ELSE IF type = "tel" THEN PhoneValues
    ELSE TextValues

\* what the field's error element can show when validateField is called
ErrorTexts == {"", RequiredMessage, EmailMessage, PhoneMessage}

\* any field, with any value and any message displayed earlier
ValidatorInit ==
    /\ \E required \in BOOLEAN, type \in FieldTypes, hasError \in BOOLEAN :
         \E v \in ValuesOf(type) :
           \E text \in (IF hasError THEN ErrorTexts ELSE {""}) :
              field = [required |-> required, type |-> type, value |-> v,
                       hasError |-> hasError, errorText |-> text]
    /\ returned = "none"
    /\ calls = 0

\* an untouched optional text field
ValidatorIdle ==
    /\ field = [required |-> FALSE, type |-> "text", value |-> <<>>,
                hasError |-> TRUE, errorText |-> ""]
    /\ returned = "none"
    /\ calls = 0

\* validateField(field), the field left as the previous call left it
ValidateCall ==
    /\ calls < MaxCalls
    /\ calls' = calls + 1
    /\ LET r == ValidateField(field.required, field.type, field.value,
                              field.hasError, field.errorText) IN
         /\ field' = [field EXCEPT !.errorText = r.text]
         /\ returned' = IF r.valid THEN "true" ELSE "false"
    /\ UNCHANGED <<navVars, faqVars, scrollVars, formVars, filterVars>>

\* ------------------------------------------------------------ specification
\* a page whose form has every error element and the message region
FormIdle ==
    /\ FormInit
    /\ formMessageExists
    /\ \A f \in Fields : errorElement[f]

\* a desktop page
ScrollIdle == ScrollInit /\ innerWidth > MobileMaxWidth

\* navigation, accordion and scroll reveal
Init == NavInit /\ FaqInit /\ ScrollInit /\ FormIdle /\ FilterInit /\ ValidatorIdle

Next ==
    \/ HamburgerClick
    \/ \E link \in NavLinks : NavLinkClick(link)
    \/ \E q \in Questions : FaqClick(q)
    \/ \E y \in ScrollPositions : ScrollEvent(y)
    \/ ScrollTimeoutFire
    \/ \E d \in ScrollAdvanceSteps \cup {scrollTimeout} : ScrollAdvance(d)

Spec == Init /\ [][Next]_vars

\* the contact form
FormPageInit == NavInit /\ FaqInit /\ ScrollIdle /\ FormInit /\ FilterInit /\ ValidatorIdle

FormNext ==
    \/ \E f \in Fields : \E v \in InputValues : InputEvent(f, v)
    \/ \E f \in Fields : BlurEvent(f)
    \/ SubmitEvent
    \/ SubmitTimeoutFire

FormSpec == FormPageInit /\ [][FormNext]_vars

\* a scheduled timer always fires
FormFairSpec == FormSpec /\ WF_vars(SubmitTimeoutFire)

\* the project filter
FilterPageInit == NavInit /\ FaqInit /\ ScrollIdle /\ FormIdle /\ FilterInit /\ ValidatorIdle

FilterNext ==
    \/ \E b \in Filters : FilterClick(b)
    \/ FilterTimerFire
    \/ \E d \in {NextDue} : FilterAdvance(d)

FilterSpec == FilterPageInit /\ [][FilterNext]_vars

\* validateField as a function of the field it is given
ValidatorPageInit ==
    NavInit /\ FaqInit /\ ScrollIdle /\ FormIdle /\ FilterInit /\ ValidatorInit

ValidatorNext == ValidateCall

ValidatorSpec == ValidatorPageInit /\ [][ValidatorNext]_vars

\* =================================================================== claims

\* ---- FAQ accordion
Expanded(q) == answerActive[q] /\ answerMaxHeight[q] # Null
Collapsed(q) == ~answerActive[q] /\ answerMaxHeight[q] = Null

\* C2: in every reachable state at most one question/answer pair carries the
\* 'active' class.
C2_AtMostOneExpanded ==
    Cardinality({q \in Questions : questionActive[q] \/ answerActive[q]}) <= 1

\* a pair other than the first is open (it was opened by a click)
C2_Witness == questionActive[2] /\ answerActive[2]

\* C3: a click on question q collapses q's answer and leaves no answer expanded
\* when q's answer was expanded, and otherwise expands q's answer and leaves
\* every other answer collapsed.
C3_ClickToggles ==
    [][\A q \in Questions :
         FaqClick(q) =>
           IF Expanded(q)
             THEN \A p \in Questions : Collapsed(p)'
             ELSE /\ Expanded(q)'
                  /\ answerMaxHeight'[q] = ScrollHeight(q)
                  /\ \A p \in Questions \ {q} : Collapsed(p)']_vars

\* pane 3 is open and pane 1, opened before it, is closed
C3_Witness == Expanded(3) /\ Collapsed(1) /\ Collapsed(2)

\* ---- scroll reveal
Revealed(e) == opacity[e] = "1" /\ transform[e] = "translateY(0)"

\* C8: when the viewport is 768 px wide or less at load, handleScrollAnimations
\* is never invoked and no tracked element's opacity or transform is written.
C8_MobileNeverReveals ==
    innerWidth <= 768 =>
        /\ revealCalls = 0
        /\ opacity = Unstyled
        /\ transform = Unstyled

\* C10: a revealed element stays revealed; an invocation of the reveal logic
\* reveals exactly the elements whose top edge is above viewportHeight / 1.2 and
\* leaves the others as they were; no other step writes the styles.
C10_RevealMonotonic ==
    [][/\ \A e \in Elements : Revealed(e) => Revealed(e)'
       /\ revealCalls' # revealCalls =>
            \A e \in Elements :
               IF 6 * (OffsetTop(e) - scrollY') < 5 * InnerHeight
                 THEN Revealed(e)'
                 ELSE opacity'[e] = opacity[e] /\ transform'[e] = transform[e]
       /\ revealCalls' = revealCalls =>
            opacity' = opacity /\ transform' = transform]_vars

\* an element revealed earlier is below the threshold again after scrolling back
C10_Witness ==
    \E e \in Elements :
       /\ Revealed(e)
       /\ 6 * (OffsetTop(e) - scrollY) >= 5 * InnerHeight
       /\ revealCalls >= 2

\* ---- form validation and submission

\* C4: after every call of validateField on a field that has an error element
\* (from the input, blur and submit listeners), the displayed error message is
\* empty if and only if the call returned valid.
C4_MessageEmptyIffValid ==
    [][\A f \in Fields :
         (/\ errorElement[f]
          /\ \/ \E v \in InputValues : InputEvent(f, v)
             \/ BlurEvent(f)
             \/ SubmitEvent /\ f \in RequiredFields)
         => (errorText'[f] = ""
               <=> ValidateField(Required[f], Type[f], value'[f], TRUE,
                                 errorText[f]).valid)]_vars

\* C5: a submit on a form with a required field that is empty after trimming
\* does not display the Sending message and schedules no timer; it displays
\* the error banner (in the message region, when the page has one) and leaves
\* every field value unchanged.
C5_EmptyRequiredNeverSends ==
    [][(SubmitEvent /\ \E f \in Fields : Required[f] /\ Trim(value[f]) = <<>>)
         => /\ formMessage'.textContent # SendingBanner
            /\ submitTimers' = submitTimers
            /\ value' = value
            /\ formMessageExists => formMessage'.textContent = ErrorBanner]_vars

\* a submit with a whitespace-only required field has shown the error banner
\* while the timer of an earlier valid submit is pending
C5_Witness ==
    /\ lastEvent = "submit"
    /\ value["name"] = <<" ">>
    /\ formMessage.textContent = ErrorBanner
    /\ submitTimers > 0

\* C6: on a page with a message region, a submit whose required fields all
\* validate shows the Sending message at once and schedules the timer, and a
\* pending timer leads to the Success message with every field cleared,
\* whatever edits and submits happen meanwhile.
C6_ValidSubmitSucceeds ==
    /\ [][(SubmitEvent /\ AllRequiredValid /\ formMessageExists)
            => /\ formMessage'.textContent = SendingBanner
               /\ submitTimers' = submitTimers + 1]_vars
    /\ [](submitTimers > 0 /\ formMessageExists
            => <>(/\ formMessage.textContent = SuccessBanner
                  /\ "success" \in formMessage.className
                  /\ \A f \in Fields : value[f] = <<>>))

\* the Success message is shown with the fields cleared while the timer of a
\* second submit is still pending
C6_Witness ==
    /\ lastEvent = "timeout"
    /\ formMessage.textContent = SuccessBanner
    /\ \A f \in Fields : value[f] = <<>>
    /\ submitTimers > 0

\* C7: after a submit that fails validation, a step that is not a user event
\* leaves the error banner displayed and the field values as they are.
C7_FailureTerminal ==
    [][(/\ lastEvent = "submit"
        /\ ~AllRequiredValid
        /\ formMessageExists
        /\ lastEvent' = "timeout")
         => /\ formMessage'.textContent = ErrorBanner
            /\ value' = value]_vars

\* C9: validateField returns the same validity without an error element as
\* with one, and with no message region nothing throws.
C9_MissingTargetsTolerated ==
    /\ \A f \in Fields :
          ValidateField(Required[f], Type[f], value[f], FALSE, errorText[f]).valid
            = ValidateField(Required[f], Type[f], value[f], TRUE, errorText[f]).valid
    /\ ~formMessageExists => ~uncaughtError

\* ---- project filter

\* C1: once every pending filter timer has fired, an item is displayed iff the
\* tag clicked last is "all" or is one of the item's categories.
C1_ShownIffMatches ==
    filterTimers = <<>> =>
        \A i \in Items :
           itemDisplay[i] # "none"
             <=> (filterValue = "all" \/ filterValue \in Categories(i))

\* C11: after a click on a filter button exactly one button carries 'active',
\* the one just clicked; timer callbacks and the passing of time leave the
\* marks alone.
C11_OneActiveButton ==
    [][/\ \A b \in Filters :
            FilterClick(b) => {x \in Filters : buttonActive'[x]} = {b}
       /\ (filterTimers' = filterTimers \/ Len(filterTimers') < Len(filterTimers))
            => buttonActive' = buttonActive]_vars

\* a button other than the one marked at load is the only active one
C11_Witness ==
    /\ {x \in Filters : buttonActive[x]} = {"commercial"}
    /\ filterValue = "commercial"
    /\ filterTimers # <<>>

\* ---- mobile navigation

\* C14: a hamburger click flips the menu's open state, a nav-link click leaves
\* it closed, and the menu is open iff an odd number of hamburger clicks
\* followed the last nav-link click (or the load).
C14_OpenIffOddClicks ==
    /\ [](navMenuActive <=> hamburgerClicks % 2 = 1)
    /\ [][HamburgerClick => navMenuActive' = ~navMenuActive]_vars
    /\ [][(\E link \in NavLinks : NavLinkClick(link)) => ~navMenuActive']_vars

\* the menu is open after three hamburger clicks in a row
C14_Witness == navMenuActive /\ hamburgerClicks = 3

\* C19: the hamburger and the nav menu carry 'active' together or not at all.
C19_HamburgerMenuInSync == hamburgerActive <=> navMenuActive

\* both carry 'active' after a hamburger click
C19_Witness == hamburgerActive /\ navMenuActive /\ hamburgerClicks = 1

\* C20: a question carries 'active' iff its answer does, and an answer has a
\* non-null maxHeight iff it is active.
C20_QuestionAnswerInSync ==
    \A q \in Questions :
       /\ questionActive[q] <=> answerActive[q]
       /\ answerMaxHeight[q] # Null <=> answerActive[q]

\* pane 1 is open with its natural height while panes 2 and 3 are closed
C20_Witness ==
    /\ questionActive[1] /\ answerActive[1] /\ answerMaxHeight[1] = ScrollHeight(1)
    /\ \A q \in Questions \ {1} : ~questionActive[q] /\ answerMaxHeight[q] = Null

\* ---- submit: per-field messages and the message region's markers

\* the message the spec gives a field's value: required, malformed email,
\* malformed phone, or none
OwnMessage(f) ==
    IF Required[f] /\ Trim(value[f]) = <<>> THEN RequiredMessage
    ELSE IF Type[f] = "email" /\ Trim(value[f]) # <<>> /\ ~EmailRegexTest(Trim(value[f]))
      THEN EmailMessage
    ELSE IF Type[f] = "tel" /\ Trim(value[f]) # <<>> /\ ~PhoneRegexTest(Trim(value[f]))
      THEN PhoneMessage
    ELSE ""

C17_SendingWitness ==
    /\ lastEvent = "submit"
    /\ formMessage.textContent = SendingBanner
    /\ value["phone"] = <<"a", "b", "c">>

\* C18: the markers on the message region all belong to the state whose text
\* is displayed: 'success' only with the Success text, 'error' only with the
\* error banner, the inline info styling only with the Sending text.
C18_OneStatePresented ==
    /\ "success" \in formMessage.className <=> formMessage.textContent = SuccessBanner
    /\ "error" \in formMessage.className <=> formMessage.textContent = ErrorBanner
    /\ formMessage.infoStyle <=> formMessage.textContent = SendingBanner

\* ---- scroll debounce

\* C16: handleScrollAnimations runs only when the debounce timer fires, 100 ms
\* after the last scroll event, once per burst: a scroll event re-arms the
\* single timer to the full delay and does not itself run the reveal logic.
C16_RevealDebounced ==
    [][/\ \A y \in ScrollPositions :
            ScrollEvent(y) =>
               /\ scrollTimeout' = 100
               /\ revealCalls' = revealCalls
       /\ revealCalls' # revealCalls =>
            /\ scrollTimeout = 0
            /\ scrollTimeout' = NoTimer
            /\ revealCalls' = revealCalls + 1]_vars

\* ---- validateField as a function of the field

Positions(s, chars) == {k \in 1..Len(s) : s[k] \in chars}

\* C12 as stated: a non-empty email value is valid iff it has an '@' with a
\* '.' somewhere after it and no whitespace.
C12_EmailValidIffAtDot ==
    (calls > 0 /\ field.type = "email" /\ field.value # <<>>)
      => (returned = "true"
            <=> /\ \E i \in Positions(field.value, {"@"}) :
                     \E j \in Positions(field.value, {"."}) : i < j
                /\ Positions(field.value, {" ", "\t", "\n"}) = {})

\* C12 as amended: an email value that is non-empty once trimmed is valid iff
\* the trimmed value has no whitespace, exactly one '@', not as its first
\* character, and after the '@' a '.' that neither follows it directly nor is
\* the last character; an invalid one shows the 'valid email' message.
\* "a@b.co" is valid and "abc" is not.
C12_EmailValidIffLocalDomainTld ==
    (calls > 0 /\ field.type = "email" /\ Trim(field.value) # <<>>)
      => LET s == Trim(field.value)
             wellFormed ==
                /\ Positions(s, {" ", "\t", "\n"}) = {}
                /\ Cardinality(Positions(s, {"@"})) = 1
                /\ \A i \in Positions(s, {"@"}) :
                      /\ i > 1
                      /\ \E j \in Positions(s, {"."}) : i + 1 < j /\ j < Len(s)
         IN /\ returned = "true" <=> wellFormed
            /\ field.hasError =>
                 field.errorText = IF wellFormed THEN "" ELSE EmailMessage
            /\ field.value = <<"a", "@", "b", ".", "c", "o">> => returned = "true"
            /\ field.value = <<"a", "b", "c">> => returned = "false"

\* "abc" was found invalid and the 'valid email' message is displayed
C12_Witness ==
    /\ calls > 0
    /\ field.type = "email"
    /\ field.value = <<"a", "b", "c">>
    /\ returned = "false"
    /\ field.errorText = EmailMessage

\* C13 as stated: a non-empty phone value is valid iff it is 10 to 15
\* characters long, each a digit, a space, '-', '+', '(' or ')'.
C13_PhoneValidIfLengthAndChars ==
    (calls > 0 /\ field.type = "tel" /\ field.value # <<>>)
      => (returned = "true"
            <=> /\ Len(field.value) \in 10..15
                /\ \A k \in 1..Len(field.value) :
                      field.value[k] \in Digits \cup {" ", "-", "+", "(", ")"})

\* C13 as amended: a phone value that is non-empty once trimmed is valid iff
\* the trimmed value is 10 to 15 characters long, each a digit, a whitespace
\* character, '-', '+', '(' or ')'.  "+91 98765 43210" is valid, "12345" is not.
C13_PhoneValidIffTrimmedLengthAndChars ==
    (calls > 0 /\ field.type = "tel" /\ Trim(field.value) # <<>>)
      => LET s == Trim(field.value) IN
           /\ returned = "true"
                <=> /\ Len(s) \in 10..15
                    /\ Positions(s, Digits \cup {" ", "\t", "\n", "-", "+", "(", ")"})
                         = 1..Len(s)
           /\ field.value = <<"1", "2", "3", "4", "5">> => returned = "false"
           /\ field.value = <<"+", "9", "1", " ", "9", "8", "7", "6", "5", " ",
                              "4", "3", "2", "1", "0">> => returned = "true"

\* a 16-character value with a leading space was found valid: 15 once trimmed
C13_Witness ==
    /\ calls > 0
    /\ field.type = "tel"
    /\ Len(field.value) = 16
    /\ field.value[1] = " "
    /\ returned = "true"

\* C15: a second validateField call on the unchanged field returns what the
\* first returned and leaves the displayed message as the first left it.
C15_ValidateIdempotent ==
    [][(ValidateCall /\ calls > 0)
         => /\ returned' = returned
            /\ field'.errorText = field.errorText]_vars

\* an empty optional field validated twice, an earlier message still displayed
C15_Witness ==
    /\ calls = 2
    /\ ~field.required
    /\ field.value = <<>>
    /\ field.errorText = PhoneMessage
    /\ returned = "true"

\* an invalid required email validated twice
C15_InvalidWitness ==
    /\ calls = 2
    /\ field.required
    /\ field.type = "email"
    /\ returned = "false"
    /\ field.errorText = EmailMessage

====
